---------------------------- MODULE Spec2Model ----------------------------
(***************************************************************************)
(* tap_runner: a terminal dashboard that runs a test executable, parses    *)
(* its TAP output, flattens the nested document into numbered results,     *)
(* classifies them and lets the user browse the failures.                  *)
(*                                                                         *)
(* Rust values are represented as follows.                                 *)
(*   Option<T>   None is <<>>, Some(x) is <<x>>                            *)
(*   String      a sequence of one-character strings, when the program     *)
(*               builds or parses it (identifiers, "file:line" texts);     *)
(*               an opaque TLA+ string when the program only stores and    *)
(*               shows it (error messages, yaml lines, reasons)            *)
(*   Vec<T>      a sequence                                                *)
(*   usize       a natural number; subtraction below zero panics in a      *)
(*               build with overflow checks and wraps otherwise            *)
(***************************************************************************)
EXTENDS Integers, Sequences, FiniteSets, TLC

(***************************************************************************)
(* Bounds of the model.                                                    *)
(***************************************************************************)
\* statements (at all depths) of a document of the flattening runs
MaxNodes == 3
\* nesting depth of subtests in those documents
MaxDepth == 2
\* statements of a document of the classification and the payload runs
MaxClassNodes == 2
\* statements of a document the dashboard's test executable prints
MaxDashNodes == 2
\* largest index the selection is followed to on an empty list
MaxSelect == 2
\* lines of the excerpt the highlighting tool prints
MaxLines == 6
\* height of the area of the preview, borders included
MaxAreaHeight == 6
\* largest line a location of the preview runs names
MaxLine == 7

(***************************************************************************)
(* Option and String helpers.                                              *)
(***************************************************************************)
None == <<>>

Some(x) == <<x>>

IsSome(o) == Len(o) = 1

Unwrap(o) == o[1]

\* Option::unwrap_or
UnwrapOr(o, d) == IF IsSome(o) THEN o[1] ELSE d

\* Option::or
OptionOr(a, b) == IF IsSome(a) THEN a ELSE b

DigitChars == <<"0", "1", "2", "3", "4", "5", "6", "7", "8", "9">>

\* usize::to_string: the decimal digits, most significant first
RECURSIVE UsizeToString(_)
UsizeToString(n) ==
    IF n < 10 THEN <<DigitChars[n + 1]>>
    ELSE UsizeToString(n \div 10) \o <<DigitChars[(n % 10) + 1]>>

\* Itertools::join / [T]::join: the parts with sep between neighbours
RECURSIVE Join(_, _)
Join(parts, sep) ==
    IF Len(parts) = 0 THEN <<>>
    ELSE IF Len(parts) = 1 THEN parts[1]
    ELSE parts[1] \o sep \o Join(Tail(parts), sep)

\* the sequence f(s[1]), ..., f(s[n])
MapSeq(f(_), s) == [i \in 1..Len(s) |-> f(s[i])]

\* usize: the largest value (scaled to the integers of the model checker;
\* what matters is that it exceeds every index and length of the model)
UsizeMax == (2^30) - 1

(***************************************************************************)
(* The parsed document (tap_parser): TapTest and TapStatement.             *)
(***************************************************************************)
\* tap_parser::Directive, as the program reads it
TapDirective(kind, reason) == [kind |-> kind, reason |-> reason]

\* tap_parser::TapTest, as the program reads it
TapTest(result, number, directive, yaml) ==
    [result |-> result, number |-> number, desc |-> None,
     directive |-> directive, yaml |-> yaml]

NoTest == TapTest(TRUE, None, None, <<>>)

\* TapStatement::TestPoint
TestPoint(t) == [kind |-> "TestPoint", test |-> t, statements |-> <<>>]

\* TapStatement::Subtest: the statements of the subtest and its ending test
Subtest(body, ending) == [kind |-> "Subtest", test |-> ending, statements |-> body]

\* every other TapStatement (plan, comment, pragma, bail out, ...)
Other == [kind |-> "Other", test |-> NoTest, statements |-> <<>>]

\* the bodies of exactly n statements (counted at all depths), nested at most
\* d deep, whose tests are drawn from tests
RECURSIVE BodiesN(_, _, _), TreesN(_, _, _)
TreesN(k, d, tests) ==
    (IF k = 1 THEN {TestPoint(t) : t \in tests} \cup {Other} ELSE {})
    \cup
    (IF d > 0
     THEN {Subtest(b, e) : b \in BodiesN(k - 1, d - 1, tests), e \in tests}
     ELSE {})

BodiesN(n, d, tests) ==
    IF n = 0 THEN {<<>>}
    ELSE UNION {{<<t>> \o rest : t \in TreesN(k, d, tests),
                                 rest \in BodiesN(n - k, d, tests)} : k \in 1..n}

Bodies(n, d, tests) == UNION {BodiesN(m, d, tests) : m \in 0..n}

\* the body with every test described by its path (the positions, outermost
\* first, of the statements that lead to it), so that each result of a run
\* can be traced back to its statement
RECURSIVE Described(_, _)
Described(body, path) ==
    [i \in 1..Len(body) |->
        LET here == Append(path, i - 1)
            st == body[i]
        IN  IF st.kind = "Other" THEN st
            ELSE [kind |-> st.kind,
                  test |-> [st.test EXCEPT !.desc = Some(here)],
                  statements |-> Described(st.statements, here)]]

(***************************************************************************)
(* The diagnostic payload and its collaborators.  serde_yaml and the jaq   *)
(* filter are external; they are modelled by their results on the payloads *)
(* the model's documents carry.  A structured value is          *)
(*   [type |-> "str", s |-> text]  a string,                               *)
(*   [type |-> "num"]              a number,                               *)
(*   [type |-> "map", at |-> o]    a mapping whose key `at` holds the      *)
(*                                 Option o.                               *)
(***************************************************************************)
StrVal(s) == [type |-> "str", s |-> s, at |-> None]

NumVal == [type |-> "num", s |-> <<>>, at |-> None]

MapVal(o) == [type |-> "map", s |-> <<>>, at |-> o]

Ok(v) == [ok |-> TRUE, v |-> v]

Err(e) == [ok |-> FALSE, v |-> e]

\* the yaml lines of the model's tests
YamlLoc == <<"at: f:3">>

YamlBroken == <<"{">>

YamlNoColon == <<"at: f">>

YamlBadLine == <<"at: f:x">>

YamlNumber == <<"at: 7">>

YamlScalar == <<"7">>

YamlNoKey == <<"n: 1">>

\* a mapping whose key is a sequence: yaml, but no JSON value
YamlComplexKey == <<"[a]: b">>

\* the panic of `.expect("Could not parse back YAML into JSON")`
JsonPanic == [ok |-> FALSE, v |-> <<"panic", "Could not parse back YAML into JSON">>]

\* serde_yaml::from_str followed by serde_json::to_value(..).expect(..), on the
\* joined text
YamlFromStr(yaml) ==
    CASE yaml = YamlLoc     -> Ok(MapVal(Some(StrVal(<<"f", ":", "3">>))))
      [] yaml = YamlComplexKey -> JsonPanic
      [] yaml = YamlNoColon -> Ok(MapVal(Some(StrVal(<<"f">>))))
      [] yaml = YamlBadLine -> Ok(MapVal(Some(StrVal(<<"f", ":", "x">>))))
      [] yaml = YamlNumber  -> Ok(MapVal(Some(NumVal)))
      [] yaml = YamlScalar  -> Ok(NumVal)
      [] yaml = YamlNoKey   -> Ok(MapVal(None))
      [] OTHER              -> Err(<<"serde_yaml", yaml>>)

\* Filter::run of the configured filter: the sequence of its outputs.  The
\* filter of the model yields the value under `at`, nothing when the key is
\* missing, and fails on a value that is no mapping.
FilterRun(f, val) ==
    IF val.type = "map"
    THEN (IF IsSome(val.at) THEN <<Ok(Unwrap(val.at))>> ELSE <<>>)
    ELSE <<Err(<<"jaq", f, val.type>>)>>

\* Val::to_str
ValToStr(val) ==
    IF val.type = "str" THEN Ok(val.s) ELSE Err(<<"jaq", "cannot use as string", val.type>>)

\* str::split_once(':'): the text before and after the first ':'
SplitOnce(s) ==
    IF \E i \in 1..Len(s) : s[i] = ":"
    THEN LET i == CHOOSE j \in 1..Len(s) :
                     s[j] = ":" /\ \A k \in 1..(j - 1) : s[k] # ":"
         IN  Some(<<SubSeq(s, 1, i - 1), SubSeq(s, i + 1, Len(s))>>)
    ELSE None

DigitValue(c) == (CHOOSE d \in 1..10 : DigitChars[d] = c) - 1

IsDigit(c) == \E d \in 1..10 : DigitChars[d] = c

RECURSIVE DigitsValue(_)
DigitsValue(s) ==
    IF Len(s) = 0 THEN 0
    ELSE 10 * DigitsValue(SubSeq(s, 1, Len(s) - 1)) + DigitValue(s[Len(s)])

\* str::parse::<usize>: decimal digits, at least one
ParseUsize(s) ==
    IF Len(s) > 0 /\ \A i \in 1..Len(s) : IsDigit(s[i])
    THEN Ok(DigitsValue(s))
    ELSE Err(<<"ParseIntError", s>>)

Location(file, line) == [file |-> file, line |-> line]

\* Location { file, line: line.parse()? }
LocationOf(file, line) == IF line.ok THEN Ok(Location(file, line.v)) ELSE Err(line.v)

\* the Location of the two parts split_once found, if it found any
LocationOfParts(parts, s) ==
    IF ~IsSome(parts) THEN Err(<<"Missing : in location", s>>)
    ELSE LocationOf(Unwrap(parts)[1], ParseUsize(Unwrap(parts)[2]))

\* <Location as FromStr>::from_str
LocationFromStr(s) == LocationOfParts(SplitOnce(s), s)

(***************************************************************************)
(* ErrorTracker.  created_at is kept as the time elapsed since, in         *)
(* seconds.  The program reads it in one comparison, with the time to      *)
(* live, so three values stand for all: 0 (younger), ErrTTL (exactly that  *)
(* old), ErrTTL + 1 (older).                                               *)
(***************************************************************************)
ErrTTL == 8

ErrorTracker(e) == [error |-> e, elapsed |-> 0]

(***************************************************************************)
(* Flattening: handle_test_point, handle_statement, handle_body.           *)
(***************************************************************************)
\* the (location, err) of a test whose extraction fails with e
Failed(e) == [location |-> None, err |-> Some(ErrorTracker(e)), panic |-> FALSE]

\* the (location, err) of a test without location and without error
Nothing == [location |-> None, err |-> None, panic |-> FALSE]

\* handle_test_point panics
Panicked == [location |-> None, err |-> None, panic |-> TRUE]

\* main.rs 272-276: the text parsed as a Location
FromParsed(loc) ==
    IF ~loc.ok THEN Failed(loc.v)
    ELSE [location |-> Some(loc.v), err |-> None, panic |-> FALSE]

\* main.rs 266-271: the first output as a string
FromStr(str) == IF ~str.ok THEN Failed(str.v) ELSE FromParsed(LocationFromStr(str.v))

\* main.rs 266-277: out.next()
FromOutput(out) ==
    IF Len(out) = 0 THEN Nothing
    ELSE IF ~out[1].ok THEN Failed(out[1].v)
    ELSE FromStr(ValToStr(out[1].v))

\* main.rs 257-283: the parsed yaml, run through the filter
FromYaml(v, f) ==
    IF ~v.ok /\ v.v[1] = "panic" THEN Panicked
    ELSE IF ~v.ok THEN Failed(v.v)
    ELSE FromOutput(FilterRun(f, v.v))

\* the (location, err) of a test: main.rs 253-286
ExtractLocation(yaml, filter) ==
    IF IsSome(filter) /\ yaml # <<>>
    THEN FromYaml(YamlFromStr(yaml), Unwrap(filter))
    ELSE Nothing

\* a faulty ordinal: positions counted from one
TestNumberOneBased(test, number) == UnwrapOr(test.number, number + 1)

\* the ordinal of a test at position number
TestNumber(test, number) == UnwrapOr(test.number, number)

\* test.yaml.join("\n")
JoinYaml(lines) == Join(MapSeq(LAMBDA l : <<l>>, lines), <<"\n">>)

\* main.rs 287-304: the Test and the error of a test whose joined yaml and
\* extraction are given
MakeTest(test, parents, number, yaml, ex) ==
    [test |-> [result |-> test.result,
               number |-> TestNumber(test, number),
               desc |-> test.desc,
               directive |-> test.directive,
               yaml |-> yaml,
               location |-> ex.location,
               parents |-> parents],
     err |-> ex.err,
     panic |-> ex.panic]

WithYaml(test, parents, number, yaml, filter) ==
    MakeTest(test, parents, number, yaml, ExtractLocation(yaml, filter))

\* the (Test, Option<ErrorTracker>) of one test
handle_test_point(test, parents, number, filter) ==
    WithYaml(test, parents, number, JoinYaml(test.yaml), filter)

\* the ancestor chain handed to the statements of a subtest at position number
ChildLineage(parents, number) == Append(parents, number)

\* faulty chains: the ending test first, and the ending test forgotten
SummaryFirst(children, ending) == <<ending>> \o children

SummaryDropped(children, ending) == children

\* b.chain(std::iter::once(...)): the results of the statements of a subtest,
\* then that of its ending test
SubtestResults(children, ending) == children \o <<ending>>

RECURSIVE handle_body(_, _, _), handle_statement(_, _, _, _), BodyFrom(_, _, _, _)
handle_statement(statement, number, parents, filter) ==
    CASE statement.kind = "Subtest" ->
            SubtestResults(
                handle_body(statement.statements, ChildLineage(parents, number), filter),
                handle_test_point(statement.test, parents, number, filter))
      [] statement.kind = "TestPoint" ->
            <<handle_test_point(statement.test, parents, number, filter)>>
      [] OTHER -> <<>>

\* enumerate().flat_map(...), from the statement at position i on
BodyFrom(body, i, parents, filter) ==
    IF i >= Len(body) THEN <<>>
    ELSE handle_statement(body[i + 1], i, parents, filter)
         \o BodyFrom(body, i + 1, parents, filter)

handle_body(body, parents, filter) == BodyFrom(body, 0, parents, filter)

(***************************************************************************)
(* StatefulList (widgets.rs).                                              *)
(***************************************************************************)
\* StatefulList::with_items: ListState::default() selects nothing
with_items(items) == [state |-> [selected |-> None], items |-> items]

\* StatefulList::empty
empty == with_items(<<>>)

\* usize subtraction a - b: [ok |-> FALSE] is the panic of a build with
\* overflow checks, otherwise the difference modulo the width
UsizeSub(a, b, checks) ==
    IF a >= b THEN [ok |-> TRUE, v |-> a - b]
    ELSE IF checks THEN [ok |-> FALSE, v |-> 0]
    ELSE [ok |-> TRUE, v |-> (a - b) + UsizeMax + 1]

\* usize addition a + b, likewise
UsizeAdd(a, b, checks) ==
    IF a + b <= UsizeMax THEN [ok |-> TRUE, v |-> a + b]
    ELSE IF checks THEN [ok |-> FALSE, v |-> 0]
    ELSE [ok |-> TRUE, v |-> (a + b) - (UsizeMax + 1)]

\* a faulty next: the index after the last is selected, not index 0
NextAfterNoWrap(i, last, checks) ==
    IF ~last.ok THEN last ELSE UsizeAdd(i, 1, checks)

\* widgets.rs 98-102, with last the value of self.items.len() - 1
NextAfter(i, last, checks) ==
    IF ~last.ok THEN last
    ELSE IF i >= last.v THEN [ok |-> TRUE, v |-> 0]
    ELSE UsizeAdd(i, 1, checks)

\* the index StatefulList::next selects: widgets.rs 96-105
NextIndex(sel, len, checks) ==
    IF IsSome(sel) THEN NextAfter(Unwrap(sel), UsizeSub(len, 1, checks), checks)
    ELSE [ok |-> TRUE, v |-> 0]

\* a faulty previous: with nothing selected it selects the last index
PreviousIndexFromLast(sel, len, checks) ==
    IF IsSome(sel)
    THEN (IF Unwrap(sel) = 0 THEN UsizeSub(len, 1, checks)
          ELSE UsizeSub(Unwrap(sel), 1, checks))
    ELSE UsizeSub(len, 1, checks)

\* the index StatefulList::previous selects: widgets.rs 110-119
PreviousIndex(sel, len, checks) ==
    IF IsSome(sel)
    THEN (IF Unwrap(sel) = 0 THEN UsizeSub(len, 1, checks)
          ELSE UsizeSub(Unwrap(sel), 1, checks))
    ELSE [ok |-> TRUE, v |-> 0]

\* ListState::select
Select(list, selected) == [list EXCEPT !.state.selected = selected]

\* StatefulList::unselect
unselect(list) == Select(list, None)

\* StatefulList::selected, which main.rs calls and widgets.rs does not hold:
\* the selected item, if the selection is an index of the list
selected(list) ==
    IF IsSome(list.state.selected) /\ Unwrap(list.state.selected) < Len(list.items)
    THEN Some(list.items[Unwrap(list.state.selected) + 1])
    ELSE None

(***************************************************************************)
(* generate_failure_preview (main.rs 533-566).  The excerpt is kept as its *)
(* number of lines.                                                        *)
(***************************************************************************)
U16Max == (2^16) - 1

\* u16 subtraction a - b, as UsizeSub
U16Sub(a, b, checks) ==
    IF a >= b THEN [ok |-> TRUE, v |-> a - b]
    ELSE IF checks THEN [ok |-> FALSE, v |-> 0]
    ELSE [ok |-> TRUE, v |-> (a - b) + U16Max + 1]

Rect(width, height) == [width |-> width, height |-> height]

\* what generate_failure_preview meets: whether the file exists, whether the
\* highlighting tool runs and prints text ("ok") or not ("err"), and the
\* number of lines it prints
PreviewInput(exists, output, lines) ==
    [exists |-> exists, output |-> output, lines |-> lines]

\* the outcomes: Ok(preview) with the number of lines drained, if the
\* windowing ran, and the number of lines left; Err(e); a panic
PreviewOk(discard, lines) == [kind |-> "Ok", discard |-> discard, lines |-> lines]

PreviewErr == [kind |-> "Err", discard |-> None, lines |-> 0]

PreviewPanic == [kind |-> "Panic", discard |-> None, lines |-> 0]

\* NoPreview: generate_failure_preview was not called
NoPreview == [kind |-> "None", discard |-> None, lines |-> 0]

\* preview.lines.drain(0..discard), which panics past the end: main.rs 562
Drain(lines, discard) ==
    IF ~discard.ok \/ discard.v > lines THEN PreviewPanic
    ELSE PreviewOk(Some(discard.v), lines - discard.v)

\* a faulty centre: the height is not taken off the line
DiscardToCenterFromLine(line, height, checks) == UsizeAdd(line, height \div 2, checks)

\* out + height / 2 where out = line - height, for line > height: main.rs 554-555
DiscardToCenter(line, height, checks) == UsizeAdd(line - height, height \div 2, checks)

\* preview.lines.len() - discard_to_center: main.rs 556
WouldRemain(lines, discard_to_center, checks) ==
    IF ~discard_to_center.ok THEN discard_to_center
    ELSE UsizeSub(lines, discard_to_center.v, checks)

\* main.rs 557-561
Discard(discard_to_center, height, would_remain, checks) ==
    IF ~would_remain.ok THEN would_remain
    ELSE IF would_remain.v > height THEN discard_to_center
    ELSE UsizeSub(discard_to_center.v, height - would_remain.v, checks)

\* the number of lines to drain, for line > height: main.rs 554-561
Center(lines, height, line, checks) ==
    Discard(DiscardToCenter(line, height, checks), height,
            WouldRemain(lines, DiscardToCenter(line, height, checks), checks), checks)

\* main.rs 551-565, with height the value of area.height - 2
Windowed(lines, height, line, checks) ==
    IF ~height.ok THEN PreviewPanic
    ELSE IF line > height.v THEN Drain(lines, Center(lines, height.v, line, checks))
    ELSE PreviewOk(None, lines)

generate_failure_preview(location, area, in, checks) ==
    IF ~in.exists THEN PreviewErr
    ELSE IF ~U16Sub(area.width, 2, checks).ok THEN PreviewPanic
    ELSE IF in.output = "err" THEN PreviewErr
    ELSE Windowed(in.lines, U16Sub(area.height, 2, checks), location.line, checks)

(***************************************************************************)
(* App::run_tests.                                                         *)
(***************************************************************************)
\* a faulty identifier: the dots left out
TestIdUndotted(test) ==
    Join(MapSeq(UsizeToString, Append(test.parents, test.number)), <<>>)

\* the display identifier of a test: its parents and its number, joined by dots
TestId(test) ==
    Join(MapSeq(UsizeToString, Append(test.parents, test.number)), <<".">>)

\* a faulty classification: the Skip directive looked at before the result
ClassifySkipFirst(test) ==
    IF IsSome(test.directive) /\ Unwrap(test.directive).kind = "Skip" THEN "Skip"
    ELSE IF ~test.result THEN "Fail"
    ELSE "Success"

\* TestResult of a flattened test: main.rs 333-344
Classify(test) ==
    IF ~test.result THEN "Fail"
    ELSE IF IsSome(test.directive) /\ Unwrap(test.directive).kind = "Skip" THEN "Skip"
    ELSE "Success"

\* a faulty latch: the latest error wins
LatchErrLastWins(self_err, err) == OptionOr(err, self_err)

\* self.err = self.err.take().or(err)
LatchErr(self_err, err) == OptionOr(self_err, err)

\* a faulty push: a failed test gets its tag and no entry in the failure list
PushFailureUnlisted(acc, test, err, number, tag) ==
    [statuses |-> Append(acc.statuses, tag),
     skipped |->
         IF tag = "Skip"
         THEN Append(acc.skipped, <<number, test.desc, Unwrap(test.directive).reason>>)
         ELSE acc.skipped,
     failure |-> acc.failure,
     err |-> LatchErr(acc.err, err)]

\* main.rs 333-345: the lists and the error after a test of identifier
\* number and result tag
Push(acc, test, err, number, tag) ==
    [statuses |-> Append(acc.statuses, tag),
     skipped |->
         IF tag = "Skip"
         THEN Append(acc.skipped, <<number, test.desc, Unwrap(test.directive).reason>>)
         ELSE acc.skipped,
     failure |->
         IF tag = "Fail"
         THEN Append(acc.failure, <<number, test.desc, test.yaml, test.location>>)
         ELSE acc.failure,
     err |-> LatchErr(acc.err, err)]

\* a faulty iteration: a test whose extraction failed is not classified
LoopStepSkipsErrored(acc, item) ==
    IF IsSome(item.err) THEN [acc EXCEPT !.err = LatchErr(acc.err, item.err)]
    ELSE Push(acc, item.test, item.err, TestId(item.test), Classify(item.test))

\* one iteration of the loop over the flattened tests: main.rs 327-346
LoopStep(acc, item) == Push(acc, item.test, item.err, TestId(item.test), Classify(item.test))

RECURSIVE LoopFrom(_, _, _)
LoopFrom(tests, i, acc) ==
    IF i > Len(tests) THEN acc
    ELSE LoopFrom(tests, i + 1, LoopStep(acc, tests[i]))

\* a faulty early return: the run is marked as one that could run
RunErrCouldRun(e, could, self_err) ==
    [result |-> Some(e), could_run |-> TRUE, statuses |-> <<>>, skipped |-> <<>>,
     failure |-> empty, err |-> self_err, tests |-> <<>>,
     built |-> TRUE, tested |-> TRUE, panicked |-> FALSE]

\* the outcome of a run that returns early with error e
RunErr(e, could, self_err) ==
    [result |-> Some(e), could_run |-> could, statuses |-> <<>>, skipped |-> <<>>,
     failure |-> empty, err |-> self_err, tests |-> <<>>,
     built |-> could, tested |-> could, panicked |-> FALSE]

\* the outcome of a run that panics while it flattens: the program ends, and
\* what its lists held by then is not followed
RunPanicked(self_err) ==
    [result |-> None, could_run |-> TRUE, statuses |-> <<>>, skipped |-> <<>>,
     failure |-> empty, err |-> self_err, tests |-> <<>>,
     built |-> TRUE, tested |-> TRUE, panicked |-> TRUE]

\* a faulty end of the run: the skip list is left as the reset made it
RunDoneSkippedLost(tests, acc) ==
    [result |-> None, could_run |-> TRUE, statuses |-> acc.statuses,
     skipped |-> <<>>, failure |-> with_items(acc.failure),
     err |-> acc.err, tests |-> tests, built |-> TRUE, tested |-> TRUE,
     panicked |-> FALSE]

\* main.rs 347-349: the outcome of a run whose loop ends with acc
RunDone(tests, acc) ==
    [result |-> None, could_run |-> TRUE, statuses |-> acc.statuses,
     skipped |-> acc.skipped, failure |-> with_items(acc.failure),
     err |-> acc.err, tests |-> tests, built |-> TRUE, tested |-> TRUE,
     panicked |-> FALSE]

\* main.rs 324-349: the outcome of a run that flattens to tests
RunOk(tests, self_err) ==
    IF \E i \in 1..Len(tests) : tests[i].panic THEN RunPanicked(self_err)
    ELSE RunDone(tests, LoopFrom(tests, 1, [statuses |-> <<>>, skipped |-> <<>>,
                                       failure |-> <<>>, err |-> self_err]))

\* run_tests on an App whose transient error is self_err, given what the
\* build command and the test command do: `in.build` and `in.test` are their
\* outcomes and `in.document` is what the parser makes of the test's output.
\* `tests` is the sequence the flattening emits; `built` and `tested` tell
\* whether the build succeeded or was not asked for, and whether the test
\* command was invoked.
run_tests(self_err, build, filter, in) ==
    IF IsSome(build) /\ in.build = "launch_error"
    THEN RunErr(<<"duct", "cannot run", Unwrap(build)>>, FALSE, self_err)
    ELSE IF IsSome(build) /\ in.build = "nonzero"
    THEN RunErr(<<"Build command failed: ", "output", Unwrap(build)>>, FALSE, self_err)
    ELSE IF in.test = "launch_error"
    THEN RunErr(<<"io", "cannot run", "test">>, TRUE, self_err)
    ELSE IF in.test = "not_utf8"
    THEN RunErr(<<"FromUtf8Error", "invalid utf-8", "test">>, TRUE, self_err)
    ELSE IF in.test = "parse_error"
    THEN RunErr(<<"tap_parser", "parse error", "test">>, TRUE, self_err)
    ELSE RunOk(handle_body(in.document, <<>>, filter), self_err)

\* a faulty caller: the error run_tests returns is dropped
ErrAfterRunSwallowed(run) == run.err

\* the caller of run_tests: `if let Err(e) = self.run_tests() { self.err = ... }`
ErrAfterRun(run) ==
    IF IsSome(run.result) THEN Some(ErrorTracker(Unwrap(run.result))) ELSE run.err

(***************************************************************************)
(* What the commands can do: the documents of each test command.           *)
(***************************************************************************)
\* tests that differ in their number: none, one that can equal a position,
\* and one of two digits on a failure
NumberingTests ==
    {TapTest(TRUE, None, None, <<>>), TapTest(TRUE, Some(1), None, <<>>),
     TapTest(FALSE, Some(12), None, <<>>)}

\* the yaml a test of the classification suite carries: failures tell where
PayloadOf(result) == IF result THEN <<>> ELSE YamlLoc

\* tests of every result and directive
ClassTests ==
    {TapTest(r, None, d, PayloadOf(r)) :
        r \in BOOLEAN,
        d \in {None, Some(TapDirective("Skip", Some("slow"))),
               Some(TapDirective("Skip", None)), Some(TapDirective("Todo", None))}}

\* failing tests of every payload: none, one that gives a location, one for
\* each way the extraction can give none, and one that makes it panic
PayloadTests ==
    {TapTest(FALSE, None, None, y) :
        y \in {<<>>, YamlLoc, YamlBroken, YamlNoColon, YamlBadLine, YamlNumber,
               YamlScalar, YamlNoKey, YamlComplexKey}}

\* the tests of the dashboard's suite: a pass, a failure with a location, a
\* failure and a skip whose payloads give no location but an error
DashTests ==
    {TapTest(TRUE, None, None, <<>>),
     TapTest(FALSE, None, None, YamlLoc),
     TapTest(FALSE, None, None, YamlBroken),
     TapTest(TRUE, None, Some(TapDirective("Skip", Some("slow"))), YamlNoColon)}

DescribedAll(bodies) == {Described(b, <<>>) : b \in bodies}

NumberingDocuments == DescribedAll(Bodies(MaxNodes, MaxDepth, NumberingTests))

ClassDocuments == DescribedAll(Bodies(MaxClassNodes, 1, ClassTests))

PayloadDocuments == DescribedAll(Bodies(MaxClassNodes, 1, PayloadTests))

DashDocuments == DescribedAll(Bodies(MaxDashNodes, 0, DashTests))

\* the documents of the runs of the whole program: no test, or one failure
\* with a location
MainDocuments == DescribedAll(Bodies(1, 0, {TapTest(FALSE, None, None, YamlLoc)}))

Documents(test_cmd) ==
    CASE test_cmd = "numbering" -> NumberingDocuments
      [] test_cmd = "main"      -> MainDocuments
      [] test_cmd = "classes"   -> ClassDocuments
      [] test_cmd = "payloads"  -> PayloadDocuments
      [] OTHER                  -> DashDocuments

RunInput(b, t, doc) == [build |-> b, test |-> t, document |-> doc]

\* what a run can meet: a build that fails, a test command that fails, or a
\* test command whose output parses to a document
RunInputs(test_cmd, build) ==
    (IF IsSome(build)
     THEN {RunInput(b, "ok", <<>>) : b \in {"launch_error", "nonzero"}}
     ELSE {})
    \cup {RunInput("success", t, <<>>) : t \in {"launch_error", "not_utf8", "parse_error"}}
    \cup {RunInput("success", "ok", doc) : doc \in Documents(test_cmd)}

\* the areas the layout can give the preview.  The dashboard's failures are
\* at line 3 of their file: its areas leave less than three lines, or none.
DashAreas == {Rect(2, h) : h \in {1, 4}}

PreviewAreas == {Rect(w, h) : w \in {1, 2}, h \in 0..MaxAreaHeight}

Areas(test_cmd) == IF test_cmd = "preview" THEN PreviewAreas ELSE DashAreas

\* a file that is missing, a highlighting tool that fails, or an excerpt of
\* so many lines
Excerpts(counts) ==
    {PreviewInput(FALSE, "ok", 0), PreviewInput(TRUE, "err", 0)}
    \cup {PreviewInput(TRUE, "ok", n) : n \in counts}

DashPreviewInputs == Excerpts({0, MaxLines})

AllPreviewInputs == Excerpts(0..MaxLines)

PreviewInputs(test_cmd) ==
    IF test_cmd = "preview" THEN AllPreviewInputs ELSE DashPreviewInputs

(***************************************************************************)
(* The state.                                                              *)
(***************************************************************************)
VARIABLES
    \* App: the fields the run and the keys change
    err, statuses, skipped, failure, could_run,
    \* App: the configuration, fixed by App::new
    test_command, build_command, location_filter, preview,
    \* whether the build checks arithmetic overflow (Some(TRUE), a debug build)
    \* or wraps (Some(FALSE), a release build); None until the first overflow,
    \* up to which the two builds behave alike
    overflow_checks,
    \* where the program is: "main", "enter", "terminal" (main before it
    \* enables raw mode, enters the alternate screen, makes the Terminal), "app"
    \* (App::new at its start), "new" (App::new before its run), "draw", "poll",
    \* "tick" (the three steps of an iteration of App::run), "quit" and "failed"
    \* (App::run returned Ok, Err), "leave", "cursor" (main before it leaves the
    \* alternate screen, shows the cursor), "exit" (main returned), "panic"
    pc,
    \* history: the handler that ran last, a run ("run"), StatefulList::next
    \* ("next"), StatefulList::previous ("previous"), a run that panicked
    \* ("panic") or any other ("other");
    \* what that handler found when it was a run or a move of the selection;
    \* and the latest run: its input, whether it started with a transient
    \* error, what the flattening emitted, its result
    event, before, last,
    \* history: the preview the handler that ran last made, if it was a draw
    \* that previewed: the line of the location, the area, the number of lines
    \* of the excerpt and the outcome
    shown,
    \* the terminal: whether it is in raw mode, whether it shows the alternate
    \* screen, and (history) whether it was ever switched to both
    terminal,
    \* main: None until App::run returns, then what it returned ("Ok", "Err"),
    \* and once main has returned, what main returned
    res

vars == <<err, statuses, skipped, failure, could_run, test_command, build_command,
          location_filter, preview, overflow_checks, pc, event, before, last, shown,
          terminal, res>>

config == <<test_command, build_command, location_filter, preview>>

\* what a handler found: the selection of the failure list, and whether the
\* status list held entries
Found(list, entries) == [selected |-> list.state.selected, entries |-> Len(entries) > 0]

NoBefore == Found(empty, <<>>)

Shown(line, area, in, result) ==
    [line |-> line, area |-> area, lines |-> in.lines, result |-> result]

NotShown == Shown(0, Rect(0, 0), PreviewInput(TRUE, "ok", 0), NoPreview)

Terminal(raw_mode, alternate_screen, switched) ==
    [raw_mode |-> raw_mode, alternate_screen |-> alternate_screen, switched |-> switched]

\* the terminal as main finds it, and as main.rs 583-587 set it up
Cooked == Terminal(FALSE, FALSE, FALSE)

SetUp == Terminal(TRUE, TRUE, TRUE)

NoRun == [input |-> RunInput("success", "ok", <<>>), err_before |-> FALSE,
          tests |-> <<>>, result |-> None, built |-> FALSE, tested |-> FALSE]

\* App::new up to its call of run_tests: main.rs 162-193
InitApp ==
    /\ err = None
    /\ could_run = TRUE
    /\ statuses = <<>>
    /\ skipped = <<>>
    /\ failure = empty
    /\ pc = "new"
    /\ event = "other"
    /\ before = NoBefore
    /\ shown = NotShown
    /\ last = NoRun
    /\ terminal = SetUp
    /\ res = None

\* the dashboard: any build command, a filter, any preview flag, any build profile
Init ==
    /\ InitApp
    /\ test_command = "dash"
    /\ build_command \in {None, Some("make")}
    /\ location_filter = Some(".at")
    /\ preview \in BOOLEAN
    /\ overflow_checks = None

\* one run of the numbering suite, or of the classification or the payload
\* suite with and without a filter
InitRun ==
    /\ InitApp
    /\ test_command \in {"numbering", "classes", "payloads"}
    /\ build_command = None
    /\ location_filter \in {None, Some(".at")}
    /\ test_command = "numbering" => location_filter = None
    /\ preview = FALSE
    /\ overflow_checks = None

(***************************************************************************)
(* The actions.                                                            *)
(***************************************************************************)
\* a faulty run: the new failure list takes over the selection of the old
AfterRunKeepsSelection(run, in, then) ==
    /\ err' = ErrAfterRun(run)
    /\ statuses' = run.statuses
    /\ skipped' = run.skipped
    /\ failure' = Select(run.failure, failure.state.selected)
    /\ could_run' = run.could_run
    /\ event' = IF run.panicked THEN "panic" ELSE "run"
    /\ pc' = IF run.panicked THEN "panic" ELSE then
    /\ before' = Found(failure, statuses)
    /\ shown' = NotShown
    /\ last' = [input |-> in, err_before |-> IsSome(err), tests |-> run.tests,
                result |-> run.result, built |-> run.built, tested |-> run.tested]

\* the state after a run of outcome run, made with input in, in a handler
\* that goes on at `then`
AfterRun(run, in, then) ==
    /\ err' = ErrAfterRun(run)
    /\ statuses' = run.statuses
    /\ skipped' = run.skipped
    /\ failure' = run.failure
    /\ could_run' = run.could_run
    /\ event' = IF run.panicked THEN "panic" ELSE "run"
    /\ pc' = IF run.panicked THEN "panic" ELSE then
    /\ before' = Found(failure, statuses)
    /\ shown' = NotShown
    /\ last' = [input |-> in, err_before |-> IsSome(err), tests |-> run.tests,
                result |-> run.result, built |-> run.built, tested |-> run.tested]

\* self.run_tests() and the assignment of its error, with input in
RunTests(in, then) ==
    AfterRun(run_tests(err, build_command, location_filter, in), in, then)

\* App::new: the first run (main.rs 195-199)
New ==
    /\ pc = "new"
    /\ \E in \in RunInputs(test_command, build_command) : RunTests(in, "draw")
    /\ UNCHANGED <<config, terminal, res, overflow_checks>>

\* KeyCode::Char('r'): a re-run
KeyR ==
    /\ pc = "poll"
    /\ \E in \in RunInputs(test_command, build_command) : RunTests(in, "tick")
    /\ UNCHANGED <<config, terminal, res, overflow_checks>>

\* a key that moves the selection to the index computed: checked is the
\* result of a build with overflow checks and wrapped that of one without.
\* The key panics or selects; the first overflow settles which build runs.
MoveSelection(checked, wrapped) ==
    /\ before' = Found(failure, statuses)
    /\ shown' = NotShown
    /\ \E checks \in BOOLEAN :
          /\ IsSome(overflow_checks) => checks = Unwrap(overflow_checks)
          /\ checked.ok /\ ~IsSome(overflow_checks) => checks = TRUE
          /\ overflow_checks' = IF checked.ok THEN overflow_checks ELSE Some(checks)
          /\ IF checks /\ ~checked.ok
             THEN /\ failure' = failure
                  /\ pc' = "panic"
             ELSE /\ Len(failure.items) = 0 => wrapped.v \in 0..MaxSelect \cup {UsizeMax}
                  /\ failure' = Select(failure, Some(wrapped.v))
                  /\ pc' = "tick"
    /\ UNCHANGED <<err, statuses, skipped, could_run, last, config, terminal, res>>

\* KeyCode::Down: self.failure.next()
KeyDown ==
    /\ pc = "poll"
    /\ event' = "next"
    /\ MoveSelection(NextIndex(failure.state.selected, Len(failure.items), TRUE),
                     NextIndex(failure.state.selected, Len(failure.items), FALSE))

\* KeyCode::Up: self.failure.previous()
KeyUp ==
    /\ pc = "poll"
    /\ event' = "previous"
    /\ MoveSelection(PreviousIndex(failure.state.selected, Len(failure.items), TRUE),
                     PreviousIndex(failure.state.selected, Len(failure.items), FALSE))

\* KeyCode::Esc: self.failure.unselect()
KeyEsc ==
    /\ pc = "poll"
    /\ failure' = unselect(failure)
    /\ event' = "other"
    /\ before' = NoBefore
    /\ shown' = NotShown
    /\ pc' = "tick"
    /\ UNCHANGED <<err, statuses, skipped, could_run, last, config, terminal, res, overflow_checks>>

\* KeyCode::Char('q')
KeyQ ==
    /\ pc = "poll"
    /\ pc' = "quit"
    /\ res' = Some("Ok")
    /\ event' = "other"
    /\ before' = NoBefore
    /\ shown' = NotShown
    /\ UNCHANGED <<err, statuses, skipped, failure, could_run, last, config, terminal,
                   overflow_checks>>

\* poll times out, or reads an event that is no key of the program
NoKey ==
    /\ pc = "poll"
    /\ pc' = "tick"
    /\ event' = "other"
    /\ before' = NoBefore
    /\ shown' = NotShown
    /\ UNCHANGED <<err, statuses, skipped, failure, could_run, last, config, terminal, res,
                   overflow_checks>>

\* the end of an iteration: when a tick is due, an error older than its time
\* to live is dropped (main.rs 381-391)
Tick ==
    /\ pc = "tick"
    /\ \E due \in BOOLEAN :
          err' = IF due /\ IsSome(err) /\ Unwrap(err).elapsed > ErrTTL THEN None ELSE err
    /\ pc' = "draw"
    /\ event' = "other"
    /\ before' = NoBefore
    /\ shown' = NotShown
    /\ UNCHANGED <<statuses, skipped, failure, could_run, last, config, terminal, res, overflow_checks>>

\* `if let Some((_, _, _, Some(location))) = self.failure.selected()`
HasLocation(sel) == IsSome(sel) /\ IsSome(Unwrap(sel)[4])

\* the end of a draw that previewed with outcome result: main.rs 488-499
Drawn(line, area, in, result) ==
    /\ shown' = Shown(line, area, in, result)
    /\ err' = IF result.kind = "Err"
              THEN Some(ErrorTracker(<<"preview", in.exists, in.output>>))
              ELSE err
    /\ pc' = IF result.kind = "Panic" THEN "panic" ELSE "poll"

\* a draw that previews: checked is the outcome of a build with overflow
\* checks and wrapped that of one without; where they differ, the build that
\* runs is settled
Previewed(line, area, in, checked, wrapped) ==
    \E checks \in BOOLEAN :
        /\ IsSome(overflow_checks) => checks = Unwrap(overflow_checks)
        /\ checked = wrapped /\ ~IsSome(overflow_checks) => checks = TRUE
        /\ overflow_checks' = IF checked = wrapped THEN overflow_checks ELSE Some(checks)
        /\ Drawn(line, area, in, IF checks THEN checked ELSE wrapped)

Preview(location, area, in) ==
    Previewed(location.line, area, in,
              generate_failure_preview(location, area, in, TRUE),
              generate_failure_preview(location, area, in, FALSE))

\* terminal.draw: in preview mode the location of the selected failure is
\* previewed, which may fail and set the transient error, or panic
\* (main.rs 480-501)
Draw ==
    /\ pc = "draw"
    /\ IF preview /\ HasLocation(selected(failure))
       THEN \E area \in Areas(test_command), in \in PreviewInputs(test_command) :
               Preview(Unwrap(Unwrap(selected(failure))[4]), area, in)
       ELSE /\ err' = err
            /\ pc' = "poll"
            /\ shown' = NotShown
            /\ overflow_checks' = overflow_checks
    /\ event' = "other"
    /\ before' = NoBefore
    /\ UNCHANGED <<statuses, skipped, failure, could_run, last, config, terminal, res>>

\* time passes while the program draws or waits: the error ages to its time
\* to live, then past it
Pass ==
    /\ pc \in {"draw", "poll", "tick"}
    /\ IsSome(err)
    /\ Unwrap(err).elapsed <= ErrTTL
    /\ err' = Some([Unwrap(err) EXCEPT
                       !.elapsed = IF @ < ErrTTL THEN ErrTTL ELSE ErrTTL + 1])
    /\ UNCHANGED <<statuses, skipped, failure, could_run, pc, event, before, last,
                   shown, config, terminal, res, overflow_checks>>

Next == New \/ KeyR \/ KeyDown \/ KeyUp \/ KeyEsc \/ KeyQ \/ NoKey \/ Tick \/ Draw \/ Pass

Spec == Init /\ [][Next]_vars

\* a single run, as App::new makes it
NextRun == New

SpecRun == InitRun /\ [][NextRun]_vars

\* the failure list of a run that found one failure, at line `line` of file f
OneFailureAt(line) ==
    with_items(<<<<<<"0">>, Some(<<0>>), <<"at">>, Some(Location(<<"f">>, line))>>>>)

\* a draw in preview mode, the one failure selected, for every location
\* line, area and excerpt
InitPreview ==
    /\ err = None
    /\ could_run = TRUE
    /\ statuses = <<"Fail">>
    /\ skipped = <<>>
    /\ \E line \in 0..MaxLine : failure = Select(OneFailureAt(line), Some(0))
    /\ test_command = "preview"
    /\ build_command = None
    /\ location_filter = Some(".at")
    /\ preview = TRUE
    /\ overflow_checks = None
    /\ pc = "draw"
    /\ event = "other"
    /\ before = NoBefore
    /\ shown = NotShown
    /\ last = NoRun
    /\ terminal = SetUp
    /\ res = None

NextPreview == Draw

SpecPreview == InitPreview /\ [][NextPreview]_vars

(***************************************************************************)
(* main (main.rs 580-606): the terminal is set up, the App is made and     *)
(* run, the terminal is restored.  Each `?` returns from main at once.     *)
(***************************************************************************)
\* the App and the history, which the steps of main leave alone
app == <<err, statuses, skipped, failure, could_run, overflow_checks, event, before,
         last, shown>>

\* `?` in main: the value is kept and main goes on at `then`, or main returns
\* the error
Try(ok, then) ==
    /\ pc' = IF ok THEN then ELSE "exit"
    /\ res' = IF ok THEN res ELSE Some("Err")

\* crossterm::terminal::enable_raw_mode()?
EnableRawMode ==
    /\ pc = "main"
    /\ \E ok \in BOOLEAN :
          /\ terminal' = [terminal EXCEPT !.raw_mode = ok]
          /\ Try(ok, "enter")
    /\ UNCHANGED <<app, config>>

\* execute!(stdout, EnterAlternateScreen, EnableMouseCapture)?
EnterAlternateScreen ==
    /\ pc = "enter"
    /\ \E ok \in BOOLEAN :
          /\ terminal' = [terminal EXCEPT
                              !.alternate_screen = ok,
                              !.switched = ok /\ terminal.raw_mode]
          /\ Try(ok, "terminal")
    /\ UNCHANGED <<app, config>>

\* Terminal::new(backend)?
NewTerminal ==
    /\ pc = "terminal"
    /\ \E ok \in BOOLEAN : Try(ok, "app")
    /\ UNCHANGED <<app, config, terminal>>

\* App::new up to its run (main.rs 140-193), and the `?` of main.rs 594: with
\* --preview, `bat` must be found; a filter must parse and finish
Configure ==
    /\ pc = "app"
    /\ \E bat \in BOOLEAN, compiles \in BOOLEAN :
          Try(~((preview /\ ~bat) \/ (IsSome(location_filter) /\ ~compiles)), "new")
    /\ UNCHANGED <<app, config, terminal>>

\* App::run returns an error: terminal.draw, poll or read fails (main.rs 359,
\* 364, 365)
LoopIoError ==
    /\ pc \in {"draw", "poll"}
    /\ pc' = "failed"
    /\ res' = Some("Err")
    /\ event' = "other"
    /\ before' = NoBefore
    /\ shown' = NotShown
    /\ UNCHANGED <<err, statuses, skipped, failure, could_run, last, config, terminal,
                   overflow_checks>>

\* crossterm::terminal::disable_raw_mode()?, after App::run returned
DisableRawMode ==
    /\ pc \in {"quit", "failed"}
    /\ \E ok \in BOOLEAN :
          /\ terminal' = [terminal EXCEPT !.raw_mode = ~ok]
          /\ Try(ok, "leave")
    /\ UNCHANGED <<app, config>>

\* execute!(terminal.backend_mut(), LeaveAlternateScreen, DisableMouseCapture)?
LeaveAlternateScreen ==
    /\ pc = "leave"
    /\ \E ok \in BOOLEAN :
          /\ terminal' = [terminal EXCEPT !.alternate_screen = ~ok]
          /\ Try(ok, "cursor")
    /\ UNCHANGED <<app, config>>

\* terminal.show_cursor()?, then `res`
ShowCursor ==
    /\ pc = "cursor"
    /\ \E ok \in BOOLEAN : Try(ok, "exit")
    /\ UNCHANGED <<app, config, terminal>>

\* the program from its start: the arguments clap accepts (--preview requires
\* a filter), the terminal as the shell left it
InitMain ==
    /\ err = None
    /\ could_run = TRUE
    /\ statuses = <<>>
    /\ skipped = <<>>
    /\ failure = empty
    /\ test_command = "main"
    /\ build_command \in {None, Some("make")}
    /\ location_filter \in {None, Some(".at")}
    /\ preview \in BOOLEAN
    /\ preview => IsSome(location_filter)
    /\ overflow_checks = None
    /\ pc = "main"
    /\ event = "other"
    /\ before = NoBefore
    /\ shown = NotShown
    /\ last = NoRun
    /\ terminal = Cooked
    /\ res = None

NextMain ==
    \/ EnableRawMode \/ EnterAlternateScreen \/ NewTerminal \/ Configure
    \/ New \/ KeyR \/ KeyDown \/ KeyUp \/ KeyEsc \/ KeyQ \/ NoKey \/ Tick \/ Draw \/ Pass
    \/ LoopIoError
    \/ DisableRawMode \/ LeaveAlternateScreen \/ ShowCursor

SpecMain == InitMain /\ [][NextMain]_vars

(***************************************************************************)
(* Reading a document and a run's results, for the properties below.       *)
(***************************************************************************)
\* the latest handler was a run, and it returned Ok
RunSucceeded == event = "run" /\ last.result = None

\* the flattened tests of the latest run
Flat == [i \in 1..Len(last.tests) |-> last.tests[i].test]

\* the path of the statement a flattened test came from
PathOf(t) == Unwrap(t.desc)

\* p is a proper prefix of q
ProperPrefix(p, q) == Len(p) < Len(q) /\ SubSeq(q, 1, Len(p)) = p

\* the statements of kind k of a body, at all depths, each with its path
RECURSIVE StatementsOf(_, _, _)
StatementsOf(body, path, k) ==
    UNION {
        (IF body[i].kind = k
         THEN {[path |-> Append(path, i - 1), st |-> body[i]]}
         ELSE {})
        \cup StatementsOf(body[i].statements, Append(path, i - 1), k)
        : i \in 1..Len(body)}

Leaves == StatementsOf(last.input.document, <<>>, "TestPoint")

Groups == StatementsOf(last.input.document, <<>>, "Subtest")

Ignored == StatementsOf(last.input.document, <<>>, "Other")

\* the indices of the flattened tests that came from the statement at path p
IndicesOf(p) == {i \in 1..Len(Flat) : PathOf(Flat[i]) = p}

\* the indices of the flattened tests that came from below the statement at p
IndicesBelow(p) == {i \in 1..Len(Flat) : ProperPrefix(p, PathOf(Flat[i]))}

\* the numbers a display identifier names: its parts between the dots, read
\* as decimal numbers
RECURSIVE IdNumbers(_)
IdNumbers(id) ==
    IF \E i \in 1..Len(id) : id[i] = "."
    THEN LET i == CHOOSE j \in 1..Len(id) :
                     id[j] = "." /\ \A k \in 1..(j - 1) : id[k] # "."
         IN  <<DigitsValue(SubSeq(id, 1, i - 1))>> \o IdNumbers(SubSeq(id, i + 1, Len(id)))
    ELSE <<DigitsValue(id)>>

\* an identifier is made of digits and single dots between them
WellFormedId(id) ==
    /\ Len(id) > 0
    /\ \A i \in 1..Len(id) : id[i] = "." \/ IsDigit(id[i])
    /\ id[1] # "." /\ id[Len(id)] # "."
    /\ \A i \in 1..(Len(id) - 1) : ~(id[i] = "." /\ id[i + 1] = ".")

\* the error messages the latest run produced, in the order it met them
RunErrors ==
    IF IsSome(last.result) THEN <<Unwrap(last.result)>>
    ELSE [i \in 1..Len(SelectSeq(last.tests, LAMBDA x : IsSome(x.err))) |->
            Unwrap(SelectSeq(last.tests, LAMBDA x : IsSome(x.err))[i].err).error]

(***************************************************************************)
(* C1.  StatefulList: the selected index, if present, is less than the     *)
(* length of the list, after any sequence of next, previous, unselect and  *)
(* re-runs.  The code selects index 0 of an empty list.                    *)
(***************************************************************************)
C1_SelectedBelowLength ==
    IsSome(failure.state.selected) =>
        Unwrap(failure.state.selected) < Len(failure.items)

(***************************************************************************)
(* C2.  On an empty failure list, next and previous neither panic nor      *)
(* select anything.  The code selects, and in a build with overflow checks *)
(* panics on the subtraction `len - 1`.                                    *)
(***************************************************************************)
C2_EmptyListStaysUnselected ==
    Len(failure.items) = 0 => failure.state.selected = None /\ pc # "panic"

(***************************************************************************)
(* C3.  When a run completes, the transient error is absent or is the      *)
(* first error this run produced; an error of an earlier run does not      *)
(* survive.  The code never resets the error at the start of a run.        *)
(***************************************************************************)
C3_ErrorIsOfThisRun ==
    event = "run" =>
        IF Len(RunErrors) = 0 THEN err = None
        ELSE IsSome(err) /\ Unwrap(err).error = RunErrors[1]

(***************************************************************************)
(* C4.  A run that starts without a transient error and returns Ok leaves  *)
(* the error of the first test, in emission order, whose extraction        *)
(* failed; errors of later tests do not overwrite it.                      *)
(***************************************************************************)
C4_FirstLeafErrorKept ==
    (RunSucceeded /\ ~last.err_before) =>
        \/ /\ \A i \in 1..Len(last.tests) : last.tests[i].err = None
           /\ err = None
        \/ \E i \in 1..Len(last.tests) :
              /\ IsSome(last.tests[i].err)
              /\ \A j \in 1..(i - 1) : last.tests[j].err = None
              /\ IsSome(err)
              /\ Unwrap(err).error = Unwrap(last.tests[i].err).error

C4_Witness ==
    /\ RunSucceeded /\ ~last.err_before
    /\ \E i, j \in 1..Len(last.tests) :
          /\ i < j
          /\ IsSome(last.tests[i].err) /\ IsSome(last.tests[j].err)
          /\ Unwrap(last.tests[i].err).error # Unwrap(last.tests[j].err).error
          /\ IsSome(err) /\ Unwrap(err).error = Unwrap(last.tests[i].err).error

(***************************************************************************)
(* C5.  Every element of a flattened test's lineage is the ordinal of the  *)
(* summary of the corresponding ancestor subtest, and the lineage holds    *)
(* the ancestors only.  The code puts the subtest's position there, which  *)
(* differs from the summary's ordinal when the ending test is numbered.    *)
(***************************************************************************)
C5_LineageHoldsAncestorOrdinals ==
    RunSucceeded =>
        \A i \in 1..Len(Flat) :
            /\ Len(Flat[i].parents) = Len(PathOf(Flat[i])) - 1
            /\ \A k \in 1..Len(Flat[i].parents) :
                  \E j \in IndicesOf(SubSeq(PathOf(Flat[i]), 1, k)) :
                      Flat[i].parents[k] = Flat[j].number

(***************************************************************************)
(* C6.  For every subtest, at any depth, the results of its statements     *)
(* come, in document order, immediately before its summary, and the        *)
(* summary's lineage is the caller's chain: that of the subtest's direct   *)
(* children less its last element.                                         *)
(***************************************************************************)
C6_ChildrenThenSummary ==
    RunSucceeded =>
        \A g \in Groups :
            \E k \in IndicesOf(g.path) :
                /\ IndicesOf(g.path) = {k}
                \* the results from below the subtest: all of them, immediately before
                /\ IndicesBelow(g.path) = (k - Cardinality(IndicesBelow(g.path)))..(k - 1)
                /\ Cardinality(IndicesBelow(g.path)) =
                       Cardinality({n \in Leaves \cup Groups : ProperPrefix(g.path, n.path)})
                \* in document order: an earlier sibling's results first, and
                \* below a statement before the statement itself
                /\ \A a, b \in IndicesBelow(g.path) :
                      a < b =>
                          \/ ProperPrefix(PathOf(Flat[b]), PathOf(Flat[a]))
                          \/ \E m \in 1..Len(PathOf(Flat[a])) :
                                /\ m <= Len(PathOf(Flat[b]))
                                /\ SubSeq(PathOf(Flat[a]), 1, m - 1)
                                       = SubSeq(PathOf(Flat[b]), 1, m - 1)
                                /\ PathOf(Flat[a])[m] < PathOf(Flat[b])[m]
                \* the summary is one level above the direct children
                /\ Flat[k].parents = SubSeq(g.path, 1, Len(g.path) - 1)
                /\ \A c \in IndicesBelow(g.path) :
                      Len(PathOf(Flat[c])) = Len(g.path) + 1 =>
                          /\ Len(Flat[c].parents) = Len(Flat[k].parents) + 1
                          /\ SubSeq(Flat[c].parents, 1, Len(Flat[k].parents))
                                 = Flat[k].parents

C6_Witness ==
    /\ RunSucceeded
    /\ \E g, h \in Groups :
          /\ ProperPrefix(g.path, h.path)
          /\ Len(h.st.statements) > 0
          /\ IndicesBelow(h.path) # {}
          /\ \E k \in IndicesOf(g.path) : Cardinality(IndicesBelow(g.path)) = k - 1 /\ k = 3

(***************************************************************************)
(* C7.  The flattening emits one result for every test point and one for   *)
(* every subtest, at all depths; other statements add nothing.             *)
(***************************************************************************)
C7_OneResultPerLeafAndGroup ==
    RunSucceeded => Len(Flat) = Cardinality(Leaves) + Cardinality(Groups)

C7_Witness ==
    /\ RunSucceeded
    /\ Cardinality(Leaves) = 1 /\ Cardinality(Groups) = 1 /\ Cardinality(Ignored) = 1
    /\ \E o \in Ignored : Len(o.path) = 2
    /\ Len(Flat) = 2

(***************************************************************************)
(* C8.  The ordinal of a test point's result is its explicit number when   *)
(* it has one (unchanged, even when duplicated or out of order), and else  *)
(* its 0-based position among all the statements of its body, the ignored  *)
(* ones included.                                                          *)
(***************************************************************************)
C8_LeafOrdinal ==
    RunSucceeded =>
        \A l \in Leaves :
            \E i \in IndicesOf(l.path) :
                /\ IndicesOf(l.path) = {i}
                /\ Flat[i].number =
                       IF IsSome(l.st.test.number) THEN Unwrap(l.st.test.number)
                       ELSE l.path[Len(l.path)]

C8_Witness ==
    /\ RunSucceeded
    /\ \E o \in Ignored : o.path = <<0>>
    /\ Len(Flat) = 2
    /\ Flat[1].number = 1 /\ Flat[1].parents = <<>> /\ PathOf(Flat[1]) = <<1>>
    /\ Flat[2].number = 1 /\ Flat[2].parents = <<>> /\ PathOf(Flat[2]) = <<2>>

(***************************************************************************)
(* C9.  After a successful run the statuses are one tag per flattened      *)
(* test, in emission order: Fail when the test failed, whatever its        *)
(* directive; else Skip when its directive is Skip; else Success, a passed *)
(* Todo included.                                                          *)
(***************************************************************************)
KindOf(t) == IF IsSome(t.directive) THEN Unwrap(t.directive).kind ELSE "none"

TagOf(passed, kind) ==
    CASE ~passed /\ kind \in {"none", "Skip", "Todo"} -> "Fail"
      [] passed /\ kind = "Skip"                      -> "Skip"
      [] passed /\ kind \in {"none", "Todo"}          -> "Success"

C9_StatusPerResult ==
    RunSucceeded =>
        /\ Len(statuses) = Len(Flat)
        /\ \A i \in 1..Len(Flat) : statuses[i] = TagOf(Flat[i].result, KindOf(Flat[i]))

C9_Witness ==
    /\ RunSucceeded
    /\ Len(Flat) = 2
    /\ ~Flat[1].result /\ KindOf(Flat[1]) = "Skip"
    /\ Flat[2].result /\ KindOf(Flat[2]) = "Todo"
    /\ statuses = <<"Fail", "Success">>

(***************************************************************************)
(* C10.  After a successful run the failure list is the failed tests, in   *)
(* emission order, each with its identifier (lineage then ordinal, joined  *)
(* by dots), description, diagnostic text and location; the skip list is   *)
(* the passed tests with a Skip directive, each with its identifier,       *)
(* description and reason.  A Success is in neither.                       *)
(***************************************************************************)
FailedTests == SelectSeq(Flat, LAMBDA t : ~t.result)

SkippedTests == SelectSeq(Flat, LAMBDA t : t.result /\ KindOf(t) = "Skip")

\* the location the payloads of the model's documents hold
LocationIn(yaml) ==
    IF IsSome(location_filter) /\ yaml = YamlLoc
    THEN Some([file |-> <<"f">>, line |-> 3])
    ELSE None

C10_FailureAndSkipLists ==
    RunSucceeded =>
        /\ Len(failure.items) = Len(FailedTests)
        /\ \A i \in 1..Len(FailedTests) :
              /\ WellFormedId(failure.items[i][1])
              /\ IdNumbers(failure.items[i][1])
                     = FailedTests[i].parents \o <<FailedTests[i].number>>
              /\ failure.items[i][2] = FailedTests[i].desc
              /\ failure.items[i][3] = FailedTests[i].yaml
              /\ failure.items[i][4] = LocationIn(FailedTests[i].yaml)
        /\ Len(skipped) = Len(SkippedTests)
        /\ \A i \in 1..Len(SkippedTests) :
              /\ WellFormedId(skipped[i][1])
              /\ IdNumbers(skipped[i][1]) = SkippedTests[i].parents \o <<SkippedTests[i].number>>
              /\ skipped[i][2] = SkippedTests[i].desc
              /\ skipped[i][3] = Unwrap(SkippedTests[i].directive).reason

C10_Witness ==
    /\ RunSucceeded
    /\ Len(Flat) = 2
    /\ Len(failure.items) = 1
    /\ failure.items[1][1] = <<"0", ".", "0">>
    /\ IsSome(failure.items[1][4])
    /\ skipped = <<<<<<"0">>, Some(<<0>>), Some("slow")>>>>
    /\ statuses = <<"Fail", "Skip">>

(***************************************************************************)
(* C11.  When a run returns, whatever its outcome, the failure list has no *)
(* selection and the three lists hold the results of this run alone: none  *)
(* when the run returned an error, else one status per flattened test, the *)
(* failed tests and the skipped tests of this run.                         *)
(***************************************************************************)
C11_RerunDiscardsEarlierResults ==
    event = "run" =>
        /\ failure.state.selected = None
        /\ IF IsSome(last.result)
           THEN statuses = <<>> /\ skipped = <<>> /\ failure.items = <<>>
           ELSE /\ Len(statuses) = Len(Flat)
                /\ Len(failure.items) = Len(FailedTests)
                /\ \A i \in 1..Len(FailedTests) :
                      /\ failure.items[i][2] = FailedTests[i].desc
                      /\ failure.items[i][3] = FailedTests[i].yaml
                /\ Len(skipped) = Len(SkippedTests)
                /\ \A i \in 1..Len(SkippedTests) : skipped[i][2] = SkippedTests[i].desc

\* a re-run by the key r that found entries and a selection, and failed to parse
C11_Witness ==
    /\ event = "run"
    /\ pc = "tick"
    /\ before.entries
    /\ IsSome(before.selected)
    /\ last.input.test = "parse_error"
    /\ statuses = <<>>
    /\ failure = empty

(***************************************************************************)
(* C12.  With a build command, the test command is invoked only after the  *)
(* build ran and exited with status zero; a build that cannot be launched  *)
(* or exits non-zero ends the run with could_run false, the transient      *)
(* error set to the build's error, the test command not invoked and the    *)
(* three lists empty.  Without a build command the run invokes the test    *)
(* command and could_run is true.                                          *)
(***************************************************************************)
C12_BuildBeforeTest ==
    event = "run" =>
        /\ last.tested => (build_command = None \/ last.input.build = "success")
        /\ (IsSome(build_command) /\ last.input.build # "success") =>
              /\ ~could_run
              /\ ~last.tested
              /\ IsSome(last.result)
              /\ IsSome(err) /\ Unwrap(err).error = Unwrap(last.result)
              /\ statuses = <<>> /\ skipped = <<>> /\ failure.items = <<>>
        /\ (IsSome(build_command) /\ last.input.build = "success") =>
              could_run /\ last.tested
        /\ build_command = None => could_run /\ last.tested

\* a re-run whose build exits non-zero, after a run that gave results
C12_Witness ==
    /\ event = "run"
    /\ IsSome(build_command)
    /\ last.input.build = "nonzero"
    /\ before.entries
    /\ ~could_run
    /\ ~last.tested
    /\ IsSome(err)

(***************************************************************************)
(* C13.  A test command that cannot be launched, prints bytes that are not *)
(* UTF-8, or prints what the parser rejects, ends the run with the         *)
(* transient error set to that error, could_run true and the three lists   *)
(* empty; the program is in its loop (or about to enter it), neither       *)
(* stopped nor panicked.                                                   *)
(***************************************************************************)
C13_TestFailureIsTransientError ==
    (event = "run" /\ last.tested /\ last.input.test # "ok") =>
        /\ IsSome(last.result)
        /\ IsSome(err) /\ Unwrap(err).error = Unwrap(last.result)
        /\ could_run
        /\ statuses = <<>> /\ skipped = <<>> /\ failure.items = <<>>
        /\ pc \in {"draw", "tick"}

\* a re-run whose test command prints bytes that are not UTF-8, after a run
\* that gave results
C13_Witness ==
    /\ event = "run"
    /\ pc = "tick"
    /\ last.input.test = "not_utf8"
    /\ last.tested
    /\ before.entries
    /\ could_run
    /\ IsSome(err)
    /\ statuses = <<>>

(***************************************************************************)
(* C14.  A transient error that was dropped at a tick stays absent until a *)
(* run produces one: in every step that takes the program from no error to *)
(* an error, the handler is a run.  The code also sets the error in draw,  *)
(* each time the preview of the selected failure's location fails, so the  *)
(* error comes back with a fresh creation time at every frame.             *)
(***************************************************************************)
C14_ErrorAbsentUntilNextRun ==
    [][(err = None /\ err' # None) => event' = "run"]_vars

(***************************************************************************)
(* Reading the latest preview, for the properties below.                   *)
(***************************************************************************)
\* generate_failure_preview got as far as the windowing of main.rs 551-563,
\* with a viewport of at least one line
WindowingReached ==
    /\ shown.result.kind \in {"Ok", "Panic"}
    /\ shown.area.width >= 2
    /\ shown.area.height >= 3

\* height of main.rs 551
ViewportHeight == shown.area.height - 2

\* the number of leading lines the preview discarded
Offset == UnwrapOr(shown.result.discard, 0)

(***************************************************************************)
(* C15.  For an excerpt of at least as many lines as the viewport is high, *)
(* a viewport of at least one line and a target line of at least 1, the    *)
(* centering completes and discards an offset with offset + height <=      *)
(* total lines; the offset is 0 when the target line is at most the        *)
(* height.  The code underflows on `lines.len() - discard_to_center` when  *)
(* the target line lies far enough past the end of the excerpt.            *)
(***************************************************************************)
C15_CenteringInBounds ==
    (WindowingReached /\ shown.lines >= ViewportHeight /\ shown.line >= 1) =>
        /\ shown.result.kind = "Ok"
        /\ Offset + ViewportHeight <= shown.lines
        /\ shown.line <= ViewportHeight => Offset = 0

(***************************************************************************)
(* C16.  For an excerpt of fewer lines than the viewport is high, the      *)
(* preview does no windowing: nothing is drained and no offset is          *)
(* computed, whatever the target line.  The code looks at the target line  *)
(* alone and computes the offset when it exceeds the height.               *)
(***************************************************************************)
C16_ShortExcerptNotWindowed ==
    (WindowingReached /\ shown.lines < ViewportHeight) =>
        shown.result = PreviewOk(None, shown.lines)

(***************************************************************************)
(* C17.  Whenever the loop is about to draw a frame or to poll for a key,  *)
(* the three lists are those of one completed run: all empty when the      *)
(* latest run returned an error, else one status per flattened test of the *)
(* latest run, its failed tests in the failure list and its skipped tests  *)
(* in the skip list.  The state a run passes through (could_run false,     *)
(* lists reset) is seen only as the end of a run whose build failed.       *)
(***************************************************************************)
C17_ListsCompleteWhenObserved ==
    pc \in {"draw", "poll"} =>
        /\ last.tested \/ IsSome(last.result)
        /\ IsSome(last.result) =>
              statuses = <<>> /\ skipped = <<>> /\ failure.items = <<>>
        /\ ~IsSome(last.result) =>
              /\ Len(statuses) = Len(Flat)
              /\ [i \in 1..Len(failure.items) |-> failure.items[i][2]]
                     = [i \in 1..Len(FailedTests) |-> FailedTests[i].desc]
              /\ [i \in 1..Len(skipped) |-> skipped[i][2]]
                     = [i \in 1..Len(SkippedTests) |-> SkippedTests[i].desc]
        /\ ~could_run =>
              IsSome(build_command) /\ last.input.build # "success" /\ IsSome(last.result)

\* the loop polls, after keys, with a failure selected and the lists of a run
\* that found a failure and a skip
C17_Witness ==
    /\ pc = "poll"
    /\ event = "other"
    /\ statuses = <<"Fail", "Skip">>
    /\ Len(failure.items) = 1
    /\ Len(skipped) = 1
    /\ failure.state.selected = Some(0)
    /\ Len(Flat) = 2

(***************************************************************************)
(* C18.  A run whose test output parses returns Ok whatever the payloads   *)
(* of its tests: a test whose payload does not parse, makes the filter     *)
(* fail, gives a value that is no text or a text that is no file:line gets *)
(* no location and an error, the tests before and after it are flattened   *)
(* and classified all the same, and there is one status per flattened      *)
(* test.  The run is cut short by nothing but the panic on a payload that  *)
(* is yaml and has no JSON value, which is none of these errors.           *)
(***************************************************************************)
\* the payloads whose extraction fails, under a filter
ErrorPayloads == {YamlBroken, YamlNoColon, YamlBadLine, YamlNumber, YamlScalar}

\* the tests of the latest run's document, those that end a subtest included
TestsOfDocument == {s.st.test : s \in Leaves \cup Groups}

ItemsAsStored ==
    [i \in 1..Len(failure.items) |-> failure.items[i][2]]
        = [i \in 1..Len(FailedTests) |-> FailedTests[i].desc]

(***************************************************************************)
(* C19.  After next() on a non-empty list: with i selected before, the     *)
(* selection is (i + 1) mod length, index 0 after the last; with nothing   *)
(* selected before, it is index 0.  The items are unchanged.               *)
(***************************************************************************)
C19_NextWraps ==
    (event = "next" /\ Len(failure.items) > 0) =>
        /\ pc = "tick"
        /\ failure.state.selected =
              IF IsSome(before.selected)
              THEN Some((Unwrap(before.selected) + 1) % Len(failure.items))
              ELSE Some(0)
        /\ ItemsAsStored

\* next() on a list of two failures, the last selected: the first is selected
C19_Witness ==
    /\ event = "next"
    /\ Len(failure.items) = 2
    /\ before.selected = Some(1)
    /\ failure.state.selected = Some(0)

(***************************************************************************)
(* C20.  After previous() on a non-empty list: with i selected before, the *)
(* selection is (i - 1 + length) mod length, the last index after index 0; *)
(* with nothing selected before, it is index 0 and not the last index.     *)
(* The items are unchanged.                                                *)
(***************************************************************************)
C20_PreviousWraps ==
    (event = "previous" /\ Len(failure.items) > 0) =>
        /\ pc = "tick"
        /\ failure.state.selected =
              IF IsSome(before.selected)
              THEN Some(((Unwrap(before.selected) - 1) + Len(failure.items))
                            % Len(failure.items))
              ELSE Some(0)
        /\ ItemsAsStored

\* previous() on a list of two failures, the first selected: the last is
\* selected
C20_Witness ==
    /\ event = "previous"
    /\ Len(failure.items) = 2
    /\ before.selected = Some(0)
    /\ failure.state.selected = Some(1)

(***************************************************************************)
(* C21.  When the preview reaches the windowing with a viewport of at      *)
(* least one line, an excerpt of at least as many lines as the viewport is *)
(* high and a target line within the excerpt (1 <= line <= lines), it      *)
(* completes and the target line is inside the window shown:               *)
(* offset < line <= offset + height.                                       *)
(***************************************************************************)
C21_TargetLineInWindow ==
    (WindowingReached /\ shown.lines >= ViewportHeight
         /\ 1 <= shown.line /\ shown.line <= shown.lines) =>
        /\ shown.result.kind = "Ok"
        /\ Offset < shown.line
        /\ shown.line <= Offset + ViewportHeight
        /\ shown.result.lines = shown.lines - Offset

\* the last line of a six-line excerpt in a viewport of two lines: the window
\* is drawn back to the last two lines
C21_Witness ==
    /\ WindowingReached
    /\ ViewportHeight = 2
    /\ shown.lines = 6
    /\ shown.line = 6
    /\ shown.result = PreviewOk(Some(4), 2)

(***************************************************************************)
(* C22.  In every state, after any sequence of runs, keys, ticks and       *)
(* draws, the status list holds as many Fail tags as the failure list has  *)
(* items and as many Skip tags as the skip list has entries.               *)
(***************************************************************************)
TagCount(tag) == Len(SelectSeq(statuses, LAMBDA t : t = tag))

C22_TagCountsMatchLists ==
    /\ TagCount("Fail") = Len(failure.items)
    /\ TagCount("Skip") = Len(skipped)
    /\ TagCount("Fail") + TagCount("Skip") + TagCount("Success") = Len(statuses)

\* a re-run that found a failure and a skip, where an earlier run had left
\* entries; then a move of the selection
C22_Witness ==
    /\ pc = "tick"
    /\ event = "previous"
    /\ last.err_before
    /\ statuses = <<"Skip", "Fail">>
    /\ Len(failure.items) = 1
    /\ Len(skipped) = 1
    /\ IsSome(failure.state.selected)

(***************************************************************************)
(* C23.  When main has returned, after the terminal was switched to raw    *)
(* mode and the alternate screen, raw mode is disabled and the alternate   *)
(* screen is left.  The code returns through the `?` on App::new, and      *)
(* through those of the set-up and of the restoration, with the terminal   *)
(* still switched.                                                         *)
(***************************************************************************)
C23_TerminalRestoredOnReturn ==
    (pc = "exit" /\ terminal.switched) =>
        ~terminal.raw_mode /\ ~terminal.alternate_screen

=============================================================================
